---- MODULE Spec2Model ----
(***************************************************************************)
(* Model of the UNSW-NB15 flow classification pipeline:                    *)
(*   ml_inference.py    artifact loading, flat / hierarchical prediction,  *)
(*                      Suricata EVE and Zeek conn.log adapters            *)
(*   classify_flows.py  the command line batch runner (main)               *)
(*   ml_rest_server.py  the single-record runner (classify_flow)           *)
(*                                                                         *)
(* A behaviour is one invocation of an entry point of the library (fn),    *)
(* or one run of main, next to one request served by the REST server.      *)
(* Probabilities are the integers 0..Scale, read as k/Scale.               *)
(***************************************************************************)
EXTENDS Integers, Sequences, FiniteSets, TLC

VARIABLES
    fn,          \* the entry point invoked
    artDir,      \* the artifact directory on disk (read only)
    args,        \* main: the parsed command line [source, mode]
    input,       \* the input file (log lines or CSV table) or the df argument
    pc,          \* position of the invoked entry point
    ret,         \* what a library call returned or raised
    df_feats,    \* main: the adapted feature table
    art,         \* predict_*: the loaded artifact bundle
    s_bin,       \* predict_*: Stage-1 scores, one per row
    tri,         \* predict_*: tri-class codes, one per row
    dosCalls,    \* the row subsets handed to pipe_dos.predict_proba, in order
    out_csv,     \* the table written by to_csv, or NoFile
    exc,         \* the exception that ended main, or NoExc
    rf_bin,      \* P(malicious) of rf_bin.joblib on each row asked so far
    rf_dos,      \* P(dos) of rf_dos_vs_other.joblib on each row asked so far
    rf_tri,      \* label of rf_tri.joblib on each row asked so far
    request,     \* the flow posted to /predict_one, or NoRequest
    spc,         \* position of the REST server
    is_attack,   \* classify_flow: Stage-1 verdict
    srvDosCalls, \* classify_flow: number of model_dos.predict calls
    response     \* classify_flow: the returned dict, or NoResponse

vars == <<fn, artDir, args, input, pc, ret, df_feats, art, s_bin, tri, dosCalls,
          out_csv, exc, rf_bin, rf_dos, rf_tri, request, spc, is_attack,
          srvDosCalls, response>>

(***************************************************************************)
(* Bounds of the model.                                                    *)
(***************************************************************************)
\* probabilities and thresholds are k/Scale, k in 0..Scale
Scale == 2
\* longest log (in lines) and longest table (in rows) drawn
MaxLines == 2

Scores == 0..Scale

(***************************************************************************)
(* Values as json.loads / pandas cells hold them.  k is the Python kind,   *)
(* s the text of a str, n the number of an int, or of a float in 1/100. *)
(***************************************************************************)
Null      == [k |-> "null",  s |-> "", n |-> 0]
NaN       == [k |-> "nan",   s |-> "", n |-> 0]
Inf       == [k |-> "inf",   s |-> "", n |-> 0]
VText(s)  == [k |-> "text",  s |-> s,  n |-> 0]
VInt(n)   == [k |-> "int",   s |-> "", n |-> n]
VFloat(n) == [k |-> "float", s |-> "", n |-> n]
VDict     == [k |-> "dict",  s |-> "", n |-> 0]
\* a probability (a score, a threshold): a float whose n counts 1/Scale
Prob(n)   == [k |-> "float", s |-> "", n |-> n]

Range(seq) == {seq[i] : i \in 1..Len(seq)}

SeqsUpTo(S, n) == UNION {[1..m -> S] : m \in 0..n}

\* the 7 canonical features, in the order every adapter appends them
FEATS == <<"proto", "service", "spkts", "dpkts", "sbytes", "dbytes", "dur">>

TRI_LABEL_NAMES == <<"normal", "dos", "other_attack">>

TriName(code) == TRI_LABEL_NAMES[code + 1]

(***************************************************************************)
(* The artifact directory and its loaders.                                 *)
(***************************************************************************)
FileNames == {"rf_bin.joblib", "rf_dos_vs_other.joblib", "rf_tri.joblib",
              "bin_threshold.json", "dos_threshold.json", "features.json"}

\* a threshold file: form is "keyed" ({"threshold": val}), "nokey" (a JSON
\* object without that key) or "garbage" (not JSON)
Keyed(v) == [form |-> "keyed", val |-> v]

Raise(e) == [ok |-> FALSE, exc |-> e, val |-> Null]

Return(v) == [ok |-> TRUE, exc |-> "", val |-> v]

\* open(os.path.join(art_dir, name)) / joblib.load(...) find the file
Exists(dir, name) == dir.exists /\ name \in dir.files

\* with open(.../features.json) as f: feats = json.load(f); return feats
get_feature_list(dir) ==
    IF ~Exists(dir, "features.json") THEN Raise("FileNotFoundError")
    ELSE IF dir.features.form = "garbage" THEN Raise("JSONDecodeError")
    ELSE Return(dir.features.names)

\* with open(.../<name>) as f: th = json.load(f)["threshold"]
ReadThreshold(dir, name, file) ==
    IF ~Exists(dir, name) THEN Raise("FileNotFoundError")
    ELSE IF file.form = "garbage" THEN Raise("JSONDecodeError")
    ELSE IF file.form = "nokey" THEN Raise("KeyError")
    ELSE Return(file.val)

load_flat_artifacts(dir) ==
    IF ~Exists(dir, "rf_bin.joblib") THEN Raise("FileNotFoundError")
    ELSE IF ~Exists(dir, "rf_tri.joblib") THEN Raise("FileNotFoundError")
    ELSE LET th == ReadThreshold(dir, "bin_threshold.json", dir.bin_threshold)
             feats == get_feature_list(dir)
         IN  IF ~th.ok THEN th
             ELSE IF ~feats.ok THEN feats
             ELSE Return([mode |-> "flat", t1 |-> th.val, t2 |-> Null,
                          feats |-> feats.val])

load_hier_artifacts(dir) ==
    IF ~Exists(dir, "rf_bin.joblib") THEN Raise("FileNotFoundError")
    ELSE IF ~Exists(dir, "rf_dos_vs_other.joblib") THEN Raise("FileNotFoundError")
    ELSE LET t1 == ReadThreshold(dir, "bin_threshold.json", dir.bin_threshold)
             t2 == ReadThreshold(dir, "dos_threshold.json", dir.dos_threshold)
             feats == get_feature_list(dir)
         IN  IF ~t1.ok THEN t1
             ELSE IF ~t2.ok THEN t2
             ELSE IF ~feats.ok THEN feats
             ELSE Return([mode |-> "hier", t1 |-> t1.val, t2 |-> t2.val,
                          feats |-> feats.val])

(***************************************************************************)
(* Tables (pandas DataFrames): the column names in order and the rows in   *)
(* order, each row a function from the column names to cells.              *)
(***************************************************************************)
IndexOf(seq, x) == CHOOSE i \in 1..Len(seq) : seq[i] = x

\* df[names]: the named columns in the given order, every row kept
Select(df, names) ==
    [columns |-> names,
     rows |-> [i \in 1..Len(df.rows) |-> [c \in Range(names) |-> df.rows[i][c]]]]

DfEmptyNever(df) == FALSE

\* df.empty: any axis of length 0
DfEmpty(df) == Len(df.columns) = 0 \/ Len(df.rows) = 0

(***************************************************************************)
(* _ensure_types                                                           *)
(***************************************************************************)
\* the numeric strings of the model and the numbers pd.to_numeric reads
NumText == [s \in {"7"} |-> 7]

\* Series.astype(str) on an object column: str(x) of every cell
AsStr(v) ==
    CASE v.k = "text" -> v
      [] v.k = "null" -> VText("None")

\* pd.to_numeric(..., errors="coerce"), cell by cell
ToNumeric(v) ==
    CASE v.k \in {"int", "float", "inf"} -> v
      [] v.k = "text" -> IF v.s \in DOMAIN NumText THEN VInt(NumText[v.s]) ELSE NaN
      [] OTHER -> NaN

FillNa(v, d) == IF v.k = "nan" THEN d ELSE v

\* astype(int) truncates a finite float; a non-finite one raises
AsInt(v) == IF v.k = "float" THEN VInt(v.n \div 100) ELSE v

AsFloat(v) == IF v.k = "int" THEN VFloat(v.n * 100) ELSE v

IntCols == {"spkts", "dpkts", "sbytes", "dbytes"}

CoerceCell(c, v) ==
    IF c \in {"proto", "service"} THEN AsStr(v)
    ELSE IF c \in IntCols THEN AsInt(FillNa(ToNumeric(v), VInt(0)))
    ELSE IF c = "dur" THEN AsFloat(FillNa(ToNumeric(v), VFloat(0)))
    ELSE v

\* astype(int) meets inf in one of the four count columns
IntCastFails(df) ==
    \E i \in 1..Len(df.rows) : \E c \in IntCols \cap Range(df.columns) :
        ToNumeric(df.rows[i][c]).k = "inf"

ensure_types(df, feature_list) ==
    IF IntCastFails(df) THEN Raise("ValueError")
    ELSE IF ~(Range(feature_list) \subseteq Range(df.columns)) THEN Raise("KeyError")
    ELSE Return(Select(
        [columns |-> df.columns,
         rows |-> [i \in 1..Len(df.rows) |->
                     [c \in Range(df.columns) |-> CoerceCell(c, df.rows[i][c])]]],
        feature_list))

(***************************************************************************)
(* The log adapters.  A line is blank, not JSON ("garbage"), JSON that is  *)
(* no object ("scalar": a number, a string, null, an array) or an object   *)
(* with its top-level members (top) and the members of its nested "flow"   *)
(* object (flow, read only when top.flow is a dict).                       *)
(***************************************************************************)
EmptyDict == [x \in {} |-> Null]

\* dict.get(key, default)
Get(d, key, default) == IF key \in DOMAIN d THEN d[key] ELSE default

\* bool(x)
Truthy(v) ==
    CASE v.k \in {"null", "nan"} -> v.k = "nan"
      [] v.k = "text" -> v.s # ""
      [] v.k \in {"int", "float"} -> v.n # 0
      [] OTHER -> TRUE

\* x or "unknown"
OrUnknown(v) == IF Truthy(v) THEN v ELSE VText("unknown")

Skip == [act |-> "skip", row |-> <<>>]

Row(r) == [act |-> "row", row |-> r]

Abort(e) == [act |-> e, row |-> <<>>]

\* one pass of the loop body of suricata_eve_to_features_df
EveLine(line) ==
    IF line.json \in {"blank", "garbage"} THEN Skip
    ELSE IF line.json # "object" THEN Abort("AttributeError")
    ELSE IF Get(line.top, "event_type", Null) # VText("flow") THEN Skip
    ELSE IF Get(line.top, "flow", VDict).k # "dict" THEN Abort("AttributeError")
    ELSE LET flow == IF "flow" \in DOMAIN line.top THEN line.flow ELSE EmptyDict
         IN  Row(<<Get(line.top, "proto", VText("unknown")),
                   OrUnknown(Get(line.top, "app_proto", VText("unknown"))),
                   Get(flow, "pkts_toserver", VInt(0)),
                   Get(flow, "pkts_toclient", VInt(0)),
                   Get(flow, "bytes_toserver", VInt(0)),
                   Get(flow, "bytes_toclient", VInt(0)),
                   Get(flow, "duration", VFloat(0))>>)

\* one pass of the loop body of zeek_conn_to_features_df
ZeekLine(line) ==
    IF line.json \in {"blank", "garbage"} THEN Skip
    ELSE IF line.json # "object" THEN Abort("AttributeError")
    ELSE Row(<<Get(line.top, "proto", VText("unknown")),
               OrUnknown(Get(line.top, "service", VText("unknown"))),
               Get(line.top, "orig_pkts", VInt(0)),
               Get(line.top, "resp_pkts", VInt(0)),
               Get(line.top, "orig_bytes", VInt(0)),
               Get(line.top, "resp_bytes", VInt(0)),
               Get(line.top, "duration", VFloat(0))>>)

\* the loop body of the adapter named kind
LineBody(kind, line) == IF kind = "eve" THEN EveLine(line) ELSE ZeekLine(line)

\* the for loop over the file: the rows appended, or the exception that
\* left the loop
RECURSIVE Loop(_, _, _)
Loop(kind, lines, rows) ==
    IF lines = <<>> THEN Return(rows)
    ELSE LET r == LineBody(kind, Head(lines))
         IN  IF r.act = "skip" THEN Loop(kind, Tail(lines), rows)
             ELSE IF r.act = "row" THEN Loop(kind, Tail(lines), Append(rows, r.row))
             ELSE Raise(r.act)

\* pd.DataFrame(rows, columns=feats): the lists' items named by position
DataFrame(rows, feats) ==
    IF rows # <<>> /\ Len(feats) # Len(FEATS) THEN Raise("ValueError")
    ELSE Return([columns |-> feats,
                 rows |-> [i \in 1..Len(rows) |->
                             [c \in Range(feats) |-> rows[i][IndexOf(feats, c)]]]])

Adapter(kind, lines, dir) ==
    LET feats == get_feature_list(dir)
        rows == Loop(kind, lines, <<>>)
        df == DataFrame(rows.val, feats.val)
    IN  IF ~feats.ok THEN feats
        ELSE IF ~rows.ok THEN rows
        ELSE IF ~df.ok THEN df
        ELSE ensure_types(df.val, feats.val)

suricata_eve_to_features_df(lines, dir) == Adapter("eve", lines, dir)

zeek_conn_to_features_df(lines, dir) == Adapter("zeek", lines, dir)

(***************************************************************************)
(* The tabular adapter of classify_flows.py                                *)
(***************************************************************************)
MissingFirst(feats, columns) ==
    LET m == SelectSeq(feats, LAMBDA c : c \notin Range(columns))
    IN  IF m = <<>> THEN m ELSE <<m[1]>>

\* [c for c in feats if c not in df_raw.columns]
Missing(feats, columns) == SelectSeq(feats, LAMBDA c : c \notin Range(columns))

load_features_from_csv(table, dir) ==
    LET feats == get_feature_list(dir)
    IN  IF ~feats.ok THEN feats
        ELSE IF Missing(feats.val, table.columns) # <<>>
             THEN [ok |-> FALSE, exc |-> "ValueError",
                   val |-> Missing(feats.val, table.columns)]
        ELSE Return(Select(table, feats.val))

(***************************************************************************)
(* The classifiers.  A joblib pipeline is an opaque deterministic function *)
(* of the feature row: rf_bin, rf_dos and rf_tri hold its answer for every *)
(* row it has been asked about, and a row asked again gets the same one.   *)
(***************************************************************************)
NoAnswers == [r \in {} |-> 0]

\* the classifier's answers once it has also been asked about rows
Ask(known, rows, Answers) ==
    {known @@ g : g \in [rows \ DOMAIN known -> Answers]}

\* pipe.predict(df)[0] of a fitted binary classifier: the class of the larger
\* probability, class 0 on a tie (argmax), as an integer code
Predict(p) == VInt(IF 2 * p > Scale THEN 1 ELSE 0)

\* s_bin >= art["t1"], one row
IsMalStrict(s, t) == s > t.n

IsMal(s, t) == s >= t.n

\* (s_dos[is_mal] >= art["t2"]).astype(int) + 1, one row
SubtypeCodeNoOffset(s, t) == IF s >= t.n THEN 1 ELSE 0

SubtypeCode(s, t) == (IF s >= t.n THEN 1 ELSE 0) + 1

\* X[is_mal]: the rows of X whose mask entry is set, in order
MalSubsetAll(X, mask) == X

RECURSIVE MalSubset(_, _)
MalSubset(X, mask) ==
    IF X = <<>> THEN <<>>
    ELSE LET rest == MalSubset(Tail(X), Tail(mask))
         IN  IF Head(mask) THEN <<Head(X)>> \o rest ELSE rest

\* a threshold numpy can compare an array of probabilities with
Comparable(t) == t.k \in {"int", "float", "inf"}

(***************************************************************************)
(* save_predictions_csv: the table written                                 *)
(***************************************************************************)
NoFile == [columns |-> <<>>, rows |-> <<>>, written |-> FALSE]

Derived == <<"bin_prob_mal", "bin_label", "tri_label", "final_label">>

OutTable(df, bundle, scores, codes) ==
    [columns |-> df.columns \o Derived,
     rows |-> [i \in 1..Len(df.rows) |->
        [c \in Range(df.columns) \cup Range(Derived) |->
            CASE c = "bin_prob_mal" -> Prob(scores[i])
              [] c = "bin_label" -> VInt(IF IsMal(scores[i], bundle.t1) THEN 1 ELSE 0)
              [] c = "tri_label" -> VInt(codes[i])
              [] c = "final_label" -> VText(TriName(codes[i]))
              [] OTHER -> df.rows[i][c]]],
     written |-> TRUE]

(***************************************************************************)
(* ml_rest_server.py                                                       *)
(***************************************************************************)
\* str.lower() on the labels of the model
Lower(s) ==
    CASE s = "Normal" -> "normal"
      [] s = "DoS" -> "dos"
      [] OTHER -> s

is_attack_label(raw) == IF raw.k = "int" THEN raw.n = 1 ELSE Lower(raw.s) # "normal"

is_dos_label(raw) == IF raw.k = "int" THEN raw.n = 1 ELSE Lower(raw.s) = "dos"

\* load_model(filename): path.exists()
ModelFound(dir, name) == Exists(dir, name)

NoRequest == [x \in {} |-> Null]

NoResponse == [bin_label |-> "", dos_vs_other_label |-> "", final_label |-> ""]

\* Python's None in the response dict
None == "None"

(***************************************************************************)
(* The inputs drawn.                                                       *)
(***************************************************************************)
With(d, key, v) == [x \in DOMAIN d \cup {key} |-> IF x = key THEN v ELSE d[x]]

Without(d, key) == [x \in DOMAIN d \ {key} |-> d[x]]

Dir(ex, files, feats, b, d) ==
    [exists |-> ex, files |-> files, features |-> feats,
     bin_threshold |-> b, dos_threshold |-> d]

FeatureFiles == {[form |-> "list", names |-> FEATS],
                 [form |-> "list", names |-> <<>>],
                 [form |-> "garbage", names |-> <<>>]}

ThresholdFiles ==
    {Keyed(Prob(n)) : n \in -1..Scale + 1}
    \cup {Keyed(VText("high")), Keyed(Null),
          [form |-> "nokey", val |-> Null], [form |-> "garbage", val |-> Null]}

NominalDir(t1, t2) ==
    Dir(TRUE, FileNames, [form |-> "list", names |-> FEATS], Keyed(t1), Keyed(t2))

NoDir == Dir(FALSE, {}, [form |-> "list", names |-> FEATS],
             Keyed(Prob(Scale)), Keyed(Prob(Scale)))

\* directories handed to the loaders
LoaderDirs ==
    {Dir(TRUE, fs, ft, b, d) :
        fs \in {FileNames} \cup {FileNames \ {x} : x \in FileNames},
        ft \in FeatureFiles, b \in ThresholdFiles, d \in ThresholdFiles}
    \cup {NoDir}

\* directories handed to the adapters
AdapterDirs == {NominalDir(Prob(Scale), Prob(Scale)), NoDir}

\* directories of a run of main: every pair of thresholds in [0,1], a
\* directory without the Stage-2 / tri-class model, a threshold that is text
MainDirs(mode) ==
    {NominalDir(Prob(a), Prob(b)) :
        a \in Scores, b \in IF mode = "hier" THEN Scores ELSE {Scale}}
    \cup {Dir(TRUE, FileNames \ {"rf_dos_vs_other.joblib", "rf_tri.joblib"},
              [form |-> "list", names |-> FEATS],
              Keyed(Prob(Scale)), Keyed(Prob(Scale))),
          NominalDir(VText("high"), Prob(Scale))}

Line(j, top, flow) == [json |-> j, top |-> top, flow |-> flow]

Blank == Line("blank", EmptyDict, EmptyDict)

Garbage == Line("garbage", EmptyDict, EmptyDict)

Scalar == Line("scalar", EmptyDict, EmptyDict)

EveTop == [x \in {"event_type", "proto", "app_proto", "flow"} |->
             CASE x = "event_type" -> VText("flow")
               [] x = "proto" -> VText("tcp")
               [] x = "app_proto" -> VText("http")
               [] x = "flow" -> VDict]

EveFlow == [x \in {"pkts_toserver", "pkts_toclient", "bytes_toserver",
                   "bytes_toclient", "duration"} |->
              CASE x = "pkts_toserver" -> VInt(10)
                [] x = "pkts_toclient" -> VInt(8)
                [] x = "bytes_toserver" -> VInt(1500)
                [] x = "bytes_toclient" -> VInt(2000)
                [] x = "duration" -> VFloat(45)]

\* values a count or a duration member may hold
OddNumbers == {Null, VText("abc"), VText("7"), VFloat(370), VInt(3), Inf}

EveFlowLine(i) == Line("object", EveTop, With(EveFlow, "pkts_toserver", VInt(i)))

EveAlert == Line("object", With(EveTop, "event_type", VText("alert")), EveFlow)

EveLines ==
    {Blank, Garbage, Scalar, EveAlert}
    \cup {EveFlowLine(i) : i \in 1..2}
    \cup {Line("object", Without(EveTop, x), EveFlow) : x \in DOMAIN EveTop}
    \cup {Line("object", With(EveTop, x, v), EveFlow) :
            x \in {"proto", "app_proto", "flow"}, v \in {Null, VText("")}}
    \cup {Line("object", Without(Without(EveTop, "proto"), "app_proto"), EveFlow)}
    \cup {Line("object", EveTop, Without(EveFlow, x)) : x \in {"pkts_toserver", "duration"}}
    \cup {Line("object", EveTop, With(EveFlow, "pkts_toserver", v)) : v \in OddNumbers}
    \cup {Line("object", EveTop, With(EveFlow, "duration", v)) : v \in {Null, Inf}}

ZeekTop == [x \in {"proto", "service", "orig_pkts", "resp_pkts", "orig_bytes",
                   "resp_bytes", "duration"} |->
              CASE x = "proto" -> VText("udp")
                [] x = "service" -> VText("dns")
                [] x = "orig_pkts" -> VInt(2)
                [] x = "resp_pkts" -> VInt(2)
                [] x = "orig_bytes" -> VInt(120)
                [] x = "resp_bytes" -> VInt(300)
                [] x = "duration" -> VFloat(5)]

ZeekConn(i) == Line("object", With(ZeekTop, "orig_pkts", VInt(i)), EmptyDict)

ZeekLines ==
    {Blank, Garbage, Scalar, Line("object", EmptyDict, EmptyDict)}
    \cup {ZeekConn(i) : i \in 1..2}
    \cup {Line("object", Without(ZeekTop, x), EmptyDict) :
            x \in {"proto", "service", "orig_pkts", "duration"}}
    \cup {Line("object", With(ZeekTop, x, Null), EmptyDict) : x \in {"proto", "service"}}
    \cup {Line("object", With(ZeekTop, "duration", v), EmptyDict) : v \in OddNumbers}

\* the lines of the logs main is run on
MainLines(source) ==
    IF source = "eve" THEN {EveFlowLine(1), EveAlert}
    ELSE {ZeekConn(1), Garbage}

\* a CSV cell of flow i, as pd.read_csv types it
Cell(c, i) ==
    CASE c \in {"proto", "label"} -> VText("tcp")
      [] c = "service" -> VText("http")
      [] c = "spkts" -> VInt(i)
      [] c = "dur" -> VFloat(45)
      [] OTHER -> VInt(8)

Table(cols, ids) ==
    [columns |-> cols,
     rows |-> [i \in 1..Len(ids) |-> [c \in Range(cols) |-> Cell(c, ids[i])]]]

Reverse(seq) == [i \in 1..Len(seq) |-> seq[Len(seq) + 1 - i]]

CsvColumns ==
    {FEATS, FEATS \o <<"label">>, <<"label">> \o Reverse(FEATS),
     SelectSeq(FEATS, LAMBDA c : c # "dur"),
     SelectSeq(FEATS, LAMBDA c : c \notin {"proto", "dur"}),
     <<"label">>}

CsvTables == {Table(cols, ids) : cols \in CsvColumns, ids \in SeqsUpTo(1..2, MaxLines)}

MainTables ==
    {Table(cols, ids) : cols \in {FEATS, SelectSeq(FEATS, LAMBDA c : c # "dur")},
                        ids \in SeqsUpTo(1..2, MaxLines)}

\* the frames the adapters hand to _ensure_types: DataFrame(rows, columns=feats)
\* of the rows their loop bodies append
RowsBuilt(kind, lines) ==
    {DataFrame(<<LineBody(kind, l).row>>, FEATS).val.rows[1] :
        l \in {m \in lines : LineBody(kind, m).act = "row"}}

RawRows == RowsBuilt("eve", EveLines) \cup RowsBuilt("zeek", ZeekLines)

RawFrames == {[columns |-> FEATS, rows |-> rs] : rs \in SeqsUpTo(RawRows, MaxLines)}

(***************************************************************************)
(* Initial states: one entry point invoked on one input.                   *)
(***************************************************************************)
EmptyTable == [columns |-> <<>>, rows |-> <<>>]

NoBundle == [mode |-> "", t1 |-> Null, t2 |-> Null, feats |-> <<>>]

NoReturn == [ok |-> FALSE, exc |-> "pending", val |-> Null]

NoArgs == [source |-> "", mode |-> ""]

\* the flows posted to the server next to a run of main: none, or the
\* first row of a table of one or two rows with the manifest's columns
Requests(a, in) ==
    {NoRequest} \cup
    (IF a.source = "data" /\ in.columns = FEATS /\ Len(in.rows) \in {1, 2}
     THEN {in.rows[1]} ELSE {})

Idle ==
    /\ ret = NoReturn
    /\ df_feats = EmptyTable
    /\ art = NoBundle
    /\ s_bin = <<>>
    /\ tri = <<>>
    /\ dosCalls = <<>>
    /\ out_csv = NoFile
    /\ exc = ""
    /\ rf_bin = NoAnswers
    /\ rf_dos = NoAnswers
    /\ rf_tri = NoAnswers
    /\ is_attack = FALSE
    /\ srvDosCalls = 0
    /\ response = NoResponse

InitLoader ==
    /\ fn \in {"get_feature_list", "load_flat_artifacts", "load_hier_artifacts"}
    /\ artDir \in LoaderDirs
    /\ input = EmptyTable
    /\ args = NoArgs /\ pc = "call" /\ request = NoRequest /\ spc = "off"

InitAdapter ==
    /\ \/ /\ fn = "suricata_eve_to_features_df"
          /\ input \in SeqsUpTo(EveLines, MaxLines)
          /\ artDir \in AdapterDirs
       \/ /\ fn = "zeek_conn_to_features_df"
          /\ input \in SeqsUpTo(ZeekLines, MaxLines)
          /\ artDir \in AdapterDirs
       \/ /\ fn = "load_features_from_csv"
          /\ input \in CsvTables
          /\ artDir \in AdapterDirs
       \/ /\ fn = "_ensure_types"
          /\ input \in RawFrames
          /\ artDir = NominalDir(Prob(Scale), Prob(Scale))
    /\ args = NoArgs /\ pc = "call" /\ request = NoRequest /\ spc = "off"

InitMain ==
    /\ fn = "main"
    /\ args \in [source : {"data", "eve", "zeek"}, mode : {"hier", "flat"}]
    /\ input \in IF args.source = "data" THEN MainTables
                 ELSE SeqsUpTo(MainLines(args.source), MaxLines)
    /\ artDir \in MainDirs(args.mode)
    /\ request \in Requests(args, input)
    /\ spc = IF request = NoRequest THEN "off" ELSE "boot"
    /\ pc = "load"

Init == Idle /\ (InitLoader \/ InitAdapter \/ InitMain)

(***************************************************************************)
(* Library calls                                                           *)
(***************************************************************************)
cliVars == <<df_feats, art, s_bin, tri, dosCalls, out_csv, exc>>

srvVars == <<spc, is_attack, srvDosCalls, response>>

fixed == <<fn, artDir, args, input, request>>

CallResult ==
    CASE fn = "get_feature_list" -> get_feature_list(artDir)
      [] fn = "load_flat_artifacts" -> load_flat_artifacts(artDir)
      [] fn = "load_hier_artifacts" -> load_hier_artifacts(artDir)
      [] fn = "suricata_eve_to_features_df" -> suricata_eve_to_features_df(input, artDir)
      [] fn = "zeek_conn_to_features_df" -> zeek_conn_to_features_df(input, artDir)
      [] fn = "load_features_from_csv" -> load_features_from_csv(input, artDir)
      [] fn = "_ensure_types" -> ensure_types(input, FEATS)

\* the call runs to its return or to the exception it raises
Call ==
    /\ pc = "call"
    /\ ret' = CallResult
    /\ pc' = "returned"
    /\ UNCHANGED <<fixed, cliVars, srvVars, rf_bin, rf_dos, rf_tri>>

(***************************************************************************)
(* classify_flows.main                                                     *)
(***************************************************************************)
\* X = df_features[feats].copy()
X == Select(df_feats, art.feats)

Fail(e) == exc' = e /\ pc' = "raised"

\* lines 66-74: the adapter of the chosen source
MainLoadFeatures ==
    /\ pc = "load"
    /\ LET r == CASE args.source = "data" -> load_features_from_csv(input, artDir)
                  [] args.source = "eve" -> suricata_eve_to_features_df(input, artDir)
                  [] args.source = "zeek" -> zeek_conn_to_features_df(input, artDir)
       IN  IF r.ok
           THEN df_feats' = r.val /\ pc' = "check_empty" /\ exc' = exc
           ELSE df_feats' = df_feats /\ Fail(r.exc)
    /\ UNCHANGED <<fixed, ret, art, s_bin, tri, dosCalls, out_csv, srvVars,
                   rf_bin, rf_dos, rf_tri>>

\* lines 76-77: if df_feats.empty: raise SystemExit
MainCheckEmpty ==
    /\ pc = "check_empty"
    /\ IF DfEmpty(df_feats) THEN Fail("SystemExit")
       ELSE pc' = "artifacts" /\ exc' = exc
    /\ UNCHANGED <<fixed, ret, df_feats, art, s_bin, tri, dosCalls, out_csv,
                   srvVars, rf_bin, rf_dos, rf_tri>>

\* predict_hier_from_df line 135 / predict_from_df line 110
LoadArtifacts ==
    /\ pc = "artifacts"
    /\ LET r == IF args.mode = "hier" THEN load_hier_artifacts(artDir)
                ELSE load_flat_artifacts(artDir)
       IN  IF r.ok
           THEN art' = r.val /\ pc' = "stage1" /\ exc' = exc
           ELSE art' = art /\ Fail(r.exc)
    /\ UNCHANGED <<fixed, ret, df_feats, s_bin, tri, dosCalls, out_csv, srvVars,
                   rf_bin, rf_dos, rf_tri>>

\* Stage 1: pipe_bin.predict_proba(X)[:, 1], then the comparison with t1
Stage1 ==
    /\ pc = "stage1"
    /\ \E f \in Ask(rf_bin, Range(X.rows), Scores) :
        /\ rf_bin' = f
        /\ IF Comparable(art.t1)
           THEN /\ s_bin' = [i \in 1..Len(X.rows) |-> f[X.rows[i]]]
                /\ pc' = IF art.mode = "hier" THEN "stage2" ELSE "tri"
                /\ exc' = exc
           ELSE s_bin' = s_bin /\ Fail("TypeError")
    /\ UNCHANGED <<fixed, ret, df_feats, art, tri, dosCalls, out_csv, srvVars,
                   rf_dos, rf_tri>>

is_mal == [i \in 1..Len(s_bin) |-> IsMal(s_bin[i], art.t1)]

\* lines 142-146: Stage 2 on the malicious rows, if there is any
Stage2 ==
    /\ pc = "stage2"
    /\ IF \E i \in 1..Len(s_bin) : is_mal[i]
       THEN \E g \in Ask(rf_dos, Range(MalSubset(X.rows, is_mal)), Scores) :
            /\ rf_dos' = g
            /\ dosCalls' = Append(dosCalls, MalSubset(X.rows, is_mal))
            /\ IF Comparable(art.t2)
               THEN /\ tri' = [i \in 1..Len(s_bin) |->
                                IF is_mal[i] THEN SubtypeCode(g[X.rows[i]], art.t2)
                                ELSE 0]
                    /\ pc' = "to_csv" /\ exc' = exc
               ELSE tri' = tri /\ Fail("TypeError")
       ELSE /\ tri' = [i \in 1..Len(s_bin) |-> 0]
            /\ pc' = "to_csv"
            /\ UNCHANGED <<rf_dos, dosCalls, exc>>
    /\ UNCHANGED <<fixed, ret, df_feats, art, s_bin, out_csv, srvVars, rf_bin, rf_tri>>

\* predict_from_df lines 120-121: pipe_tri.predict(X) on every row
TriFlat ==
    /\ pc = "tri"
    /\ \E h \in Ask(rf_tri, Range(X.rows), 0..2) :
        /\ rf_tri' = h
        /\ tri' = [i \in 1..Len(X.rows) |-> h[X.rows[i]]]
    /\ pc' = "to_csv"
    /\ UNCHANGED <<fixed, ret, df_feats, art, s_bin, dosCalls, out_csv, exc,
                   srvVars, rf_bin, rf_dos>>

\* save_predictions_csv lines 173-184
ToCsv ==
    /\ pc = "to_csv"
    /\ out_csv' = OutTable(df_feats, art, s_bin, tri)
    /\ pc' = "summary"
    /\ UNCHANGED <<fixed, ret, df_feats, art, s_bin, tri, dosCalls, exc, srvVars,
                   rf_bin, rf_dos, rf_tri>>

\* main lines 91-98
Summary ==
    /\ pc = "summary"
    /\ pc' = "done"
    /\ UNCHANGED <<fixed, ret, cliVars, srvVars, rf_bin, rf_dos, rf_tri>>

(***************************************************************************)
(* The REST server                                                         *)
(***************************************************************************)
\* module level: model_bin = load_model(...); model_dos = load_model(...)
ServerStart ==
    /\ spc = "boot"
    /\ spc' = IF ModelFound(artDir, "rf_bin.joblib")
                 /\ ModelFound(artDir, "rf_dos_vs_other.joblib")
              THEN "ready" ELSE "failed"
    /\ UNCHANGED <<fixed, pc, ret, cliVars, is_attack, srvDosCalls, response,
                   rf_bin, rf_dos, rf_tri>>

Labels(bin, sub, final) ==
    [bin_label |-> bin, dos_vs_other_label |-> sub, final_label |-> final]

\* classify_flow(row) for the posted flow
ClassifyFlow ==
    /\ spc = "ready"
    /\ \E f \in Ask(rf_bin, {request}, Scores) :
        /\ rf_bin' = f
        /\ is_attack' = is_attack_label(Predict(f[request]))
        /\ IF ~is_attack'
           THEN /\ response' = Labels("normal", None, "normal")
                /\ UNCHANGED <<rf_dos, srvDosCalls>>
           ELSE \E g \in Ask(rf_dos, {request}, Scores) :
                /\ rf_dos' = g
                /\ srvDosCalls' = srvDosCalls + 1
                /\ LET sub == IF is_dos_label(Predict(g[request]))
                              THEN "dos" ELSE "other_attack"
                   IN  response' = Labels("attack", sub, sub)
    /\ spc' = "responded"
    /\ UNCHANGED <<fixed, pc, ret, cliVars, rf_tri>>

Next ==
    \/ Call
    \/ MainLoadFeatures
    \/ MainCheckEmpty
    \/ LoadArtifacts
    \/ Stage1
    \/ Stage2
    \/ TriFlat
    \/ ToCsv
    \/ Summary
    \/ ServerStart
    \/ ClassifyFlow

Spec == Init /\ [][Next]_vars

(***************************************************************************)
(* The claims                                                              *)
(***************************************************************************)
Loaded == {"stage1", "stage2", "tri", "to_csv", "summary", "done"}

Label(code) == IF code = 1 THEN "attack" ELSE "normal"

\* C1: the Single-Record Runner returns, for a record, the binary, subtype
\* and final label the Batch Runner in hierarchical mode writes for that
\* record as a one-row table with the same artifact bundle.
C1_SingleEqualsBatch ==
    (fn = "main" /\ args.mode = "hier" /\ pc = "done" /\ spc = "responded"
        /\ Len(out_csv.rows) = 1 /\ X.rows[1] = request)
    => LET row == out_csv.rows[1]
       IN  /\ response.bin_label = Label(row["bin_label"].n)
           /\ response.final_label = row["final_label"].s
           /\ response.dos_vs_other_label =
                 IF row["tri_label"].n = 0 THEN None ELSE row["final_label"].s

\* C2: in hierarchical batch mode a row gated malicious is labelled dos when
\* its subtype score is >= t2 (equality included) and other_attack when it
\* is < t2.
C2_SubtypeDosAtOrAboveT2 ==
    (fn = "main" /\ args.mode = "hier" /\ out_csv.written)
    => \A i \in 1..Len(out_csv.rows) :
          out_csv.rows[i]["bin_label"].n = 1
          => out_csv.rows[i]["final_label"].s =
                IF rf_dos[X.rows[i]] >= art.t2.n THEN "dos" ELSE "other_attack"

\* C3: in hierarchical and in flat batch mode, binary_label is 1 (attack) if
\* and only if binary_score >= t1: a score equal to t1 is labelled attack.
C3_Stage1Inclusive ==
    (fn = "main" /\ out_csv.written)
    => \A i \in 1..Len(out_csv.rows) :
          /\ out_csv.rows[i]["bin_prob_mal"].n = rf_bin[X.rows[i]]
          /\ out_csv.rows[i]["bin_label"].n \in {0, 1}
          /\ out_csv.rows[i]["bin_label"].n = 1
                <=> out_csv.rows[i]["bin_prob_mal"].n >= art.t1.n
          /\ args.mode = "hier"
                => (out_csv.rows[i]["tri_label"].n # 0
                      <=> out_csv.rows[i]["bin_prob_mal"].n >= art.t1.n)

\* a flat run wrote a row whose score equals t1 = 0.5 and labelled it attack
C3_Witness ==
    /\ fn = "main" /\ args.mode = "flat" /\ out_csv.written
    /\ 2 * art.t1.n = Scale
    /\ \E i \in 1..Len(out_csv.rows) :
          /\ out_csv.rows[i]["bin_prob_mal"].n = art.t1.n
          /\ out_csv.rows[i]["bin_label"].n = 1

\* C4: in hierarchical mode, on the batch and on the single-record path, the
\* subtype label is defined (dos or other_attack) iff the binary label is
\* attack; final_label is normal exactly when the binary label is normal and
\* otherwise is the subtype label, so it is one of normal, dos, other_attack.
C4_SubtypeIffAttack ==
    /\ (fn = "main" /\ args.mode = "hier" /\ out_csv.written)
       => \A i \in 1..Len(out_csv.rows) :
            LET row == out_csv.rows[i]
            IN  /\ row["tri_label"].n \in {1, 2} <=> row["bin_label"].n = 1
                /\ row["tri_label"].n = 0 <=> row["bin_label"].n = 0
                /\ row["final_label"].s = "normal" <=> row["bin_label"].n = 0
                /\ row["bin_label"].n = 1
                      => row["final_label"].s =
                            IF row["tri_label"].n = 1 THEN "dos" ELSE "other_attack"
    /\ spc = "responded"
       => /\ response.bin_label \in {"normal", "attack"}
          /\ response.dos_vs_other_label \in {"dos", "other_attack"}
                <=> response.bin_label = "attack"
          /\ response.dos_vs_other_label = None <=> response.bin_label = "normal"
          /\ response.final_label = "normal" <=> response.bin_label = "normal"
          /\ response.bin_label = "attack"
                => response.final_label = response.dos_vs_other_label

\* a hierarchical run wrote an attack row and a normal row, and the server
\* answered a request with a subtype
C4_Witness ==
    /\ fn = "main" /\ args.mode = "hier" /\ out_csv.written
    /\ \E i, j \in 1..Len(out_csv.rows) :
          out_csv.rows[i]["bin_label"].n = 1 /\ out_csv.rows[j]["bin_label"].n = 0
    /\ spc = "responded" /\ response.bin_label = "attack"

\* the rows of table whose index is in idx, in their order
Pick(rows, idx) ==
    [k \in 1..Cardinality(idx) |->
        rows[CHOOSE i \in idx : Cardinality({j \in idx : j < i}) = k - 1]]

\* C5: in hierarchical mode Stage 2 is invoked only on rows gated malicious:
\* the batch path hands it exactly the rows with binary_score >= t1, once,
\* and does not invoke it when there is none; the single-record path invokes
\* it only after Stage 1 reported attack.
C5_Stage2OnlyOnMalicious ==
    /\ (fn = "main" /\ pc \in {"to_csv", "summary", "done"})
       => LET mal == {i \in 1..Len(s_bin) : s_bin[i] >= art.t1.n}
          IN  dosCalls = IF args.mode = "hier" /\ mal # {}
                         THEN <<Pick(X.rows, mal)>> ELSE <<>>
    /\ \A k \in 1..Len(dosCalls) :
          /\ dosCalls[k] # <<>>
          /\ \A r \in Range(dosCalls[k]) : rf_bin[r] >= art.t1.n
    /\ Len(dosCalls) <= 1
    /\ srvDosCalls > 0 => is_attack /\ spc = "responded"
    /\ (spc = "responded" /\ response.bin_label = "normal") => srvDosCalls = 0
    /\ srvDosCalls <= 1

\* a hierarchical run handed Stage 2 one of its two rows, and left out the
\* other one
C5_Witness ==
    /\ fn = "main" /\ args.mode = "hier" /\ pc = "done"
    /\ Len(s_bin) = 2 /\ Len(dosCalls) = 1 /\ Len(dosCalls[1]) = 1

Required(name) ==
    IF name = "load_hier_artifacts"
    THEN {"rf_bin.joblib", "rf_dos_vs_other.joblib", "bin_threshold.json",
          "dos_threshold.json", "features.json"}
    ELSE {"rf_bin.joblib", "rf_tri.joblib", "bin_threshold.json", "features.json"}

InUnitInterval(t) == t.k \in {"int", "float"} /\ 0 <= t.n /\ t.n <= Scale

\* C6: loading a bundle (hier or flat) returns one only if the directory
\* exists, every required file is there, every threshold is a number in
\* [0,1] and the feature manifest is not empty; it fails otherwise.
C6_LoadValidates ==
    (fn \in {"load_hier_artifacts", "load_flat_artifacts"} /\ pc = "returned" /\ ret.ok)
    => /\ artDir.exists
       /\ Required(fn) \subseteq artDir.files
       /\ InUnitInterval(ret.val.t1)
       /\ fn = "load_hier_artifacts" => InUnitInterval(ret.val.t2)
       /\ ret.val.feats # <<>>

NonNumeric(v) == v.k = "null" \/ (v.k = "text" /\ v.s \notin DOMAIN NumText)

\* C7: _ensure_types never fails, and gives proto and service as text with a
\* non-text or missing value mapped to "unknown", the four counts as integers
\* with a non-numeric or missing value mapped to 0, and dur as a float with a
\* non-numeric or missing value mapped to 0.0.
C7_CoercionDefaults ==
    (fn = "_ensure_types" /\ pc = "returned")
    => /\ ret.ok
       /\ Len(ret.val.rows) = Len(input.rows)
       /\ \A i \in 1..Len(input.rows) :
            LET raw == input.rows[i]
                o == ret.val.rows[i]
            IN  /\ \A c \in {"proto", "service"} :
                      /\ o[c].k = "text"
                      /\ raw[c].k # "text" => o[c].s = "unknown"
                /\ \A c \in IntCols :
                      /\ o[c].k = "int"
                      /\ NonNumeric(raw[c]) => o[c].n = 0
                /\ o["dur"].k \in {"float", "inf"}
                /\ NonNumeric(raw["dur"]) => o["dur"] = VFloat(0)

\* C8: on every sequence of lines the EVE adapter and the conn.log adapter
\* run to completion without raising: a line that gives no record adds no
\* row, and the other lines are still processed.
C8_AdaptersNeverRaise ==
    (fn \in {"suricata_eve_to_features_df", "zeek_conn_to_features_df"}
        /\ pc = "returned" /\ artDir.exists)
    => /\ ret.ok
       /\ Len(ret.val.rows) <= Len(input)

\* C9: load_features_from_csv fails, naming every missing field, iff a
\* manifest field is absent from the table's columns; otherwise it returns
\* exactly the manifest columns in manifest order with every row in place.
C9_CsvSchemaCheck ==
    (fn = "load_features_from_csv" /\ pc = "returned" /\ artDir.exists)
    => LET absent == {c \in Range(FEATS) : c \notin Range(input.columns)}
       IN  /\ ret.ok <=> absent = {}
           /\ ~ret.ok => /\ ret.exc = "ValueError"
                         /\ Range(ret.val) = absent
           /\ ret.ok => /\ ret.val.columns = artDir.features.names
                        /\ Len(ret.val.rows) = Len(input.rows)
                        /\ \A i \in 1..Len(input.rows) : \A c \in Range(FEATS) :
                              ret.val.rows[i][c] = input.rows[i][c]

\* a table of two rows without proto and dur was refused, both named
C9_Witness ==
    /\ fn = "load_features_from_csv" /\ pc = "returned"
    /\ ~ret.ok /\ ret.exc = "ValueError"
    /\ Len(ret.val) = 2 /\ Len(input.rows) = 2

\* C10: a run of main whose adaptation yields zero rows ends with the
\* empty-result error (SystemExit) before any classifier is loaded or asked
\* and before the output is written; classification and the write happen
\* only for a non-empty feature table.
C10_EmptyBeforeClassifiers ==
    fn = "main"
    => /\ exc = "SystemExit"
          => /\ pc = "raised"
             /\ art = NoBundle /\ s_bin = <<>> /\ dosCalls = <<>>
             /\ rf_tri = NoAnswers /\ ~out_csv.written
             /\ Len(df_feats.rows) = 0
       /\ (pc \in Loaded \cup {"artifacts"} \/ art # NoBundle \/ out_csv.written
              \/ s_bin # <<>>)
          => Len(df_feats.rows) > 0 /\ Len(df_feats.columns) > 0
       /\ (args.source = "eve" /\ input # <<>> /\ Range(input) = {EveAlert}
              /\ pc \notin {"load", "check_empty"})
          => exc = "SystemExit"

\* an EVE log of non-flow events only ended main with SystemExit
C10_Witness ==
    /\ fn = "main" /\ args.source = "eve"
    /\ input # <<>> /\ Range(input) = {EveAlert}
    /\ pc = "raised" /\ exc = "SystemExit"

====
